---- MODULE Spec2Model ----
(***************************************************************************)
(* Host-side serial multiplexer of proxy_io (src/proxy_io/serial_host.py): *)
(* the SerialInterface worker thread, the SharedSerial channel, the        *)
(* class-level registry SharedSerial.serial_interfaces, the response       *)
(* classifier clean_response, and the CircuitPython device the worker      *)
(* talks to (src/circuitpython_mcu/code.py).                               *)
(*                                                                         *)
(* Text is modelled as a sequence of pieces: a piece is either a           *)
(* whitespace run (" ", "\r\n", "\n") or a maximal run of non-whitespace   *)
(* characters (a token).  str.split() keeps the tokens, " ".join() puts    *)
(* one space between tokens, and a Python str handed to code that expects  *)
(* a list of lines is the sequence of its characters.                      *)
(*                                                                         *)
(* Variables whose name starts with g_ are history variables: they record  *)
(* what happened and are never read by the modelled code (the timing       *)
(* premise of the caller-side expiry, AnsweredInTime, reads them).         *)
(***************************************************************************)
EXTENDS Integers, Sequences, FiniteSets, TLC

\* ------------------------------------------------------------------ bounds
MaxChannels == 2
MaxWorkers == 2
MaxRequests == 2
MaxUnsolicited == 1
MaxPieces == 4
MaxExtra == 2

Channels == 1..MaxChannels
Workers == 1..MaxWorkers
None == 0

\* ------------------------------------------------------------ vocabulary
Ports == {"ttyACM0"}

ConnectionType == {"DIO", "SPI"}

SerialCommand ==
    {"VERSION", "HELP", "DIO_DIRECTION", "DIO_LIST", "DIO_CLEAR", "DIO_SET",
     "DIO_READ", "RELAY_LIST", "RELAY_SET", "RELAY_CLEAR", "SPI_SEND",
     "SPI_RECEIVE", "ERROR", "EXCEPTION"}

SP == " "
CRLF == "\r\n"
NL == "\n"

IsSpace(piece) == piece \in {SP, CRLF, NL}

IsToken(piece) == ~IsSpace(piece)

\* str.split(" ") would cut at single spaces only
split_at_spaces(line) == SelectSeq(line, LAMBDA piece : piece # SP)

\* str.split(): the whitespace-separated tokens of a line
split(line) == SelectSeq(line, IsToken)

\* seq[:n]
Take(seq, n) == SubSeq(seq, 1, IF Len(seq) < n THEN Len(seq) ELSE n)

\* seq[n + 1:]
DropOneMore(seq, n) == SubSeq(seq, n + 2, Len(seq))

\* seq[n:] (0-based n, as in Python)
Drop(seq, n) == SubSeq(seq, n + 1, Len(seq))

InSeq(x, seq) == \E i \in 1..Len(seq) : seq[i] = x

RECURSIVE join(_, _)
\* sep.join(parts): parts is a sequence of texts (piece sequences)
join(sep, parts) ==
    IF Len(parts) = 0 THEN <<>>
    ELSE IF Len(parts) = 1 THEN parts[1]
    ELSE parts[1] \o <<sep>> \o join(sep, Tail(parts))

\* the tokens of a line, each as a text of its own
TokensAsTexts(tokens) == [i \in 1..Len(tokens) |-> <<tokens[i]>>]

\* --------------------------------------------------------- the classifier
Envelope(command, key, data) ==
    [exc |-> "none", command |-> command, key |-> key, data |-> data,
     ext |-> FALSE, extension |-> <<>>]

Raised(exc) ==
    [exc |-> exc, command |-> "", key |-> "", data |-> <<>>,
     ext |-> FALSE, extension |-> <<>>]

NoResult == Raised("unset")

\* line 135: _driver_version = None; otherwise the "data" of an envelope
\* (a str, or the dict of an ERROR / EXCEPTION envelope)
NoVersion == [set |-> FALSE, key |-> "", data |-> <<>>]

VersionOf(response) == [set |-> TRUE, key |-> response.key, data |-> response.data]

\* lines 164-166: the else branch of the EXCEPTION test
VerbLookup(response_fields) ==
    IF Len(response_fields) = 0 THEN Raised("IndexError")
    ELSE IF response_fields[1] \notin SerialCommand THEN Raised("KeyError")
    ELSE Envelope(response_fields[1], "str",
                  join(SP, TokensAsTexts(Drop(response_fields, 1))))

\* lines 157-166: the first line decides command and data.  The ERROR test
\* (158) is an `if` of its own; the EXCEPTION test (161) that follows it
\* carries the else branch (164-166), which therefore also runs for an ERROR
\* line and replaces what the ERROR test assigned, or raises.
ClassifyFirstLine(first_line) ==
    LET response_fields == split(first_line)
        afterErrorTest ==
            IF InSeq("ERROR:", Take(response_fields, 2))
            THEN Envelope("ERROR", "error", first_line)
            ELSE NoResult
        afterExceptionTest ==
            IF InSeq("EXCEPTION:", Take(response_fields, 2))
            THEN Envelope("EXCEPTION", "exception", first_line)
            ELSE VerbLookup(response_fields)
    IN  afterExceptionTest

\* the classifier without the test of line 153: text_response[0] of an empty
\* sequence raises IndexError
clean_response_unguarded(text_response) ==
    IF Len(text_response) = 0 THEN Raised("IndexError")
    ELSE LET head == ClassifyFirstLine(text_response[1])
         IN  IF head.exc # "none" \/ Len(text_response) = 1 THEN head
             ELSE [head EXCEPT !.ext = TRUE,
                               !.extension = join(NL, Drop(text_response, 1))]

\* SharedSerial.clean_response: text_response is a sequence of lines
clean_response(text_response) ==
    LET head ==
            IF Len(text_response) = 0
            THEN Envelope("ERROR", "error", <<"No response from MCU">>)
            ELSE ClassifyFirstLine(text_response[1])
    IN  IF head.exc # "none" THEN Raised(head.exc)
        ELSE IF Len(text_response) > 1
        THEN [head EXCEPT !.ext = TRUE,
                          !.extension = join(NL, Drop(text_response, 1))]
        ELSE head

\* ------------------------------------------- what can reach the classifier
\* tokens a first line is made of: every verb name, the two markers, a name
\* that is no verb, and an argument
Tokens == SerialCommand \cup {"ERROR:", "EXCEPTION:", "FOO", "3"}

Pieces == Tokens \cup {SP, CRLF}

RECURSIVE LinesOfLen(_)
\* the texts of n pieces in which tokens and whitespace runs alternate
LinesOfLen(n) ==
    IF n = 1 THEN {<<p>> : p \in Pieces}
    ELSE UNION {{Append(line, p) :
                    p \in {q \in Pieces :
                              IsToken(q) # IsToken(line[Len(line)])}} :
                line \in LinesOfLen(n - 1)}

\* the lines readlines() can return: at least one piece, at most MaxPieces
Lines == UNION {LinesOfLen(n) : n \in 1..MaxPieces}

\* lines after the first (a row of a pin listing, a blank line)
ExtraLines == {<<"0", SP, "GP0", CRLF>>, <<CRLF>>}

\* the list a worker puts on a response queue: no line at all (only the echo
\* was read and dropped), or a first line and up to MaxExtra more
Replies ==
    {<<>>} \cup
    {<<first>> \o rest :
        first \in Lines,
        rest \in UNION {[1..n -> ExtraLines] : n \in 0..MaxExtra}}

\* ------------------------------------------------------------ the requests
\* what the callers of handle_command submit (DigitalIO / BaseIo methods)
Invocations == {[command |-> "DIO_SET", data |-> <<"3">>]}

\* SpiIo.send_message, lines 403-407: the message, a bytes object, is passed
\* on as data unchanged.  A bytes value is written as its hex digits.
BytesPayloads == {<<"0xDE", "0xAD">>}

IsBytes(data) == data \in BytesPayloads

SpiInvocations == {[command |-> "SPI_SEND", data |-> <<"0xDE", "0xAD">>]}

\* handle_command lines 201-207 takes any str as data: the request whose
\* command line reads like the device's reply to it
SameTextInvocations == {[command |-> "DIO_SET", data |-> <<"3", SP, "True">>]}

\* line 96: cmd_dict["command"].name + " " + cmd_dict["data"] + "\r\n"
serial_command_str(cmd_dict) ==
    <<cmd_dict.command, SP>> \o cmd_dict.data \o <<CRLF>>

\* line 100: the str (not a list) put on the queue when the port is not open
PortNotOpenText == "ERROR: Cannot send DIO command as serial port not open."

PortNotOpenChars ==
    <<"E","R","R","O","R",":"," ","C","a","n","n","o","t"," ","s","e","n","d",
      " ","D","I","O"," ","c","o","m","m","a","n","d"," ","a","s"," ","s","e",
      "r","i","a","l"," ","p","o","r","t"," ","n","o","t"," ","o","p","e","n",
      ".">>

\* the characters of the two str values that reach clean_response
\* (line 100, and "" of line 211)
Chars(text) == IF text = PortNotOpenText THEN PortNotOpenChars ELSE <<>>

\* a str seen as a sequence: one element per character
StrAsSequence(chars) == [i \in 1..Len(chars) |-> <<chars[i]>>]

\* line 111
TimeoutLines == << <<"TIMEOUT">> >>

\* --------------------------------------------------------------- the device
\* code.py handle_cmd, line 230: print("{} {}".format(command, reply)), with
\* the reply of DigitalIo.set_or_clear, line 101
ReplyDone(cmd_line) == << <<cmd_line[1], SP, "3", SP, "True", CRLF>> >>

\* the same with the reply of code_version, lines 10, 62-63
ReplyVersion == << <<"VERSION", SP, "0.0.1", CRLF>> >>

\* the same with the reply of line 102
ReplyError(cmd_line) ==
    << <<cmd_line[1], SP, "ERROR:", SP, "Cannot", SP, "set", SP, "pin:", SP,
         "3", CRLF>> >>

\* diagnostic output the device prints on its own
UnsolicitedLines == << <<"soft", SP, "reboot", CRLF>> >>

VARIABLES
    serial_interfaces,  \* SharedSerial.serial_interfaces: port -> worker
    n_workers,          \* SerialInterface objects constructed so far
    w_port,             \* SerialInterface.serial_port
    alive,              \* SerialInterface.alive
    wpc,                \* where the worker thread is in run()
    input_q,            \* SerialInterface.input_q
    service_qs,         \* SerialInterface.service_qs: service -> queue owner
    next_response_q,    \* SerialInterface.next_response_q (the Queue's owner)
    w_cmd,              \* run(): serial_command_str of the request in hand
    cpc,                \* where the caller of a channel is
    c_port,             \* SharedSerial.serial_port
    _driver_version,    \* SharedSerial._driver_version (the memo)
    driver_version,     \* what the driver_version property returned last
    c_service,          \* SharedSerial.service
    c_local,            \* local worker reference inside a channel method
    serial_interface,   \* SharedSerial.serial_interface
    response_q,         \* SharedSerial.response_q
    result,             \* what the last handle_command returned or raised
    rx,                 \* bytes waiting on the host side of the port (lines)
    dev_cmds,           \* command lines the device has received, unanswered
    n_unsolicited,      \* unsolicited outputs emitted so far
    g_next,             \* next request id
    g_req,              \* id of the request a channel submitted last
    g_got,              \* the queue item the last handle_command consumed
    g_enq,              \* per worker: ids in the order they were enqueued
    g_wr,               \* per worker: ids in the order their write was made
    g_dlv,              \* per worker: ids in the order line 112 delivered
    g_cur,              \* per worker: id of the request in hand
    g_inflight,         \* per worker: ids written and not yet delivered
    g_puts              \* per request id: items put that stem from it

vars == <<serial_interfaces, n_workers, w_port, alive, wpc, input_q,
          service_qs, next_response_q, w_cmd, cpc, c_port, _driver_version, driver_version, c_service,
          c_local, serial_interface, response_q, result, rx, dev_cmds,
          n_unsolicited, g_next, g_req, g_got, g_enq, g_wr, g_dlv,
          g_cur, g_inflight, g_puts>>

registry_vars == <<serial_interfaces, n_workers, w_port>>
worker_vars == <<alive, wpc, input_q, service_qs, next_response_q, w_cmd>>
channel_vars == <<cpc, c_port, _driver_version, driver_version, c_service, c_local, serial_interface,
                  response_q, result>>
device_vars == <<rx, dev_cmds, n_unsolicited>>
ghost_vars == <<g_next, g_req, g_got, g_enq, g_wr, g_dlv, g_cur,
                g_inflight, g_puts>>

NoItem ==
    [type |-> "none", lines |-> <<>>, text |-> "", g_for |-> -1, g_gen |-> {}]

\* SerialInterface.__init__, lines 70-77, for the workers not yet constructed
Init ==
    /\ serial_interfaces = [p \in Ports |-> None]
    /\ n_workers = 0
    /\ w_port = [w \in Workers |-> "ttyACM0"]
    /\ alive = [w \in Workers |-> FALSE]
    /\ wpc = [w \in Workers |-> "none"]
    /\ input_q = [w \in Workers |-> <<>>]
    /\ service_qs = [w \in Workers |-> [s \in ConnectionType |-> None]]
    /\ next_response_q = [w \in Workers |-> None]
    /\ w_cmd = [w \in Workers |-> <<>>]
    /\ cpc = [c \in Channels |-> "new"]
    /\ c_port = [c \in Channels |-> "ttyACM0"]
    /\ _driver_version = [c \in Channels |-> NoVersion]
    /\ driver_version = [c \in Channels |-> NoVersion]
    /\ c_service = [c \in Channels |-> "DIO"]
    /\ c_local = [c \in Channels |-> None]
    /\ serial_interface = [c \in Channels |-> None]
    /\ response_q = [c \in Channels |-> <<>>]
    /\ result = [c \in Channels |-> NoResult]
    /\ rx = [p \in Ports |-> <<>>]
    /\ dev_cmds = [p \in Ports |-> <<>>]
    /\ n_unsolicited = 0
    /\ g_next = 1
    /\ g_req = [c \in Channels |-> 0]
    /\ g_got = [c \in Channels |-> NoItem]
    /\ g_enq = [w \in Workers |-> <<>>]
    /\ g_wr = [w \in Workers |-> <<>>]
    /\ g_dlv = [w \in Workers |-> <<>>]
    /\ g_cur = [w \in Workers |-> 0]
    /\ g_inflight = [w \in Workers |-> {}]
    /\ g_puts = [r \in 1..MaxRequests |-> 0]


\* ----------------------------------------------------------------- helpers
Texts(tagged) == [i \in 1..Len(tagged) |-> tagged[i].text]

Gens(tagged) == {tagged[i].g_gen : i \in 1..Len(tagged)} \ {0}

Tag(lines, id) == [i \in 1..Len(lines) |-> [text |-> lines[i], g_gen |-> id]]

ListItem(lines, for, gen) ==
    [type |-> "list", lines |-> lines, text |-> "", g_for |-> for,
     g_gen |-> gen]

StrItem(text, for) ==
    [type |-> "str", lines |-> <<>>, text |-> text, g_for |-> for,
     g_gen |-> {}]

\* what clean_response indexes: the lines of a list, the characters of a str
AsSequence(item) ==
    IF item.type = "str" THEN StrAsSequence(Chars(item.text)) ELSE item.lines

\* the requests an item stems from: the one being served, the ones the
\* device produced its lines for
Stems(item) == ({item.g_for} \cup item.g_gen) \cap (1..MaxRequests)

CountPut(item) ==
    [r \in 1..MaxRequests |->
        IF r \in Stems(item) THEN g_puts[r] + 1 ELSE g_puts[r]]

\* `not self.service_qs`, line 116
TableEmpty(w) == \A s \in ConnectionType : service_qs[w][s] = None

\* queue.Queue is first in, first out: get() takes the oldest item
queue_get_lifo(q) == [item |-> q[Len(q)], rest |-> SubSeq(q, 1, Len(q) - 1)]

queue_get(q) == [item |-> Head(q), rest |-> Tail(q)]

\* Queue.put
queue_put(q, item) == Append(q, item)

\* ------------------------------------------------ SharedSerial (the caller)
\* SharedSerial.__init__ lines 135-140 and the test of line 176
SharedSerial_init(c, serial_port, service) ==
    /\ cpc[c] = "new"
    /\ c_port' = [c_port EXCEPT ![c] = serial_port]
    /\ c_service' = [c_service EXCEPT ![c] = service]
    /\ cpc' = [cpc EXCEPT ![c] =
                 IF serial_interfaces[serial_port] = None
                 THEN "create" ELSE "register"]
    /\ UNCHANGED <<_driver_version, driver_version, c_local,
                   serial_interface, response_q, result>>
    /\ UNCHANGED <<registry_vars, worker_vars, device_vars, ghost_vars>>

\* obtain_serial_interface lines 177-180: construct and start the worker
obtain_create(c) ==
    /\ cpc[c] = "create"
    /\ n_workers < MaxWorkers
    /\ LET w == n_workers + 1
       IN  /\ n_workers' = w
           /\ w_port' = [w_port EXCEPT ![w] = c_port[c]]
           /\ wpc' = [wpc EXCEPT ![w] = "init"]
           /\ c_local' = [c_local EXCEPT ![c] = w]
    /\ cpc' = [cpc EXCEPT ![c] = "store"]
    /\ UNCHANGED <<serial_interfaces, alive, input_q, service_qs,
                   next_response_q, w_cmd, c_port, _driver_version, driver_version, c_service,
                   serial_interface, response_q, result>>
    /\ UNCHANGED <<device_vars, ghost_vars>>

\* obtain_serial_interface line 181
obtain_store(c) ==
    /\ cpc[c] = "store"
    /\ serial_interfaces' =
           [serial_interfaces EXCEPT ![c_port[c]] = c_local[c]]
    /\ cpc' = [cpc EXCEPT ![c] = "register"]
    /\ UNCHANGED <<n_workers, w_port, c_port, _driver_version, driver_version, c_service, c_local,
                   serial_interface, response_q, result>>
    /\ UNCHANGED <<worker_vars, device_vars, ghost_vars>>

\* SerialInterface.register, lines 79-80
register(w, service, service_q) ==
    service_qs' = [service_qs EXCEPT ![w][service] = service_q]

\* obtain_serial_interface lines 182-185
obtain_register(c) ==
    /\ cpc[c] = "register"
    /\ register(serial_interfaces[c_port[c]], c_service[c], c)
    /\ cpc' = [cpc EXCEPT ![c] = "return"]
    /\ UNCHANGED <<alive, wpc, input_q, next_response_q, w_cmd, c_port, _driver_version, driver_version,
                   c_service, c_local, serial_interface, response_q, result>>
    /\ UNCHANGED <<registry_vars, device_vars, ghost_vars>>

\* obtain_serial_interface line 186 and the assignment of line 140
obtain_return(c) ==
    /\ cpc[c] = "return"
    /\ serial_interface' =
           [serial_interface EXCEPT ![c] = serial_interfaces[c_port[c]]]
    /\ cpc' = [cpc EXCEPT ![c] = "idle"]
    /\ UNCHANGED <<c_port, _driver_version, driver_version, c_service, c_local, response_q, result>>
    /\ UNCHANGED <<registry_vars, worker_vars, device_vars, ghost_vars>>

\* handle_command lines 202-207: build the request and put it on input_q
handle_command_put(c, invocation) ==
    /\ cpc[c] = "idle"
    /\ g_next <= MaxRequests
    /\ LET w == serial_interface[c]
           message_to_send ==
               [service |-> c_service[c], command |-> invocation.command,
                data |-> invocation.data, g_id |-> g_next]
       IN  /\ input_q' = [input_q EXCEPT ![w] = queue_put(@, message_to_send)]
           /\ g_enq' = [g_enq EXCEPT ![w] = Append(@, g_next)]
    /\ g_req' = [g_req EXCEPT ![c] = g_next]
    /\ g_next' = g_next + 1
    /\ cpc' = [cpc EXCEPT ![c] = "wait"]
    /\ UNCHANGED <<alive, wpc, service_qs, next_response_q, w_cmd, c_port, _driver_version, driver_version,
                   c_service, c_local, serial_interface, response_q, result,
                   g_got, g_wr, g_dlv, g_cur, g_inflight, g_puts>>
    /\ UNCHANGED <<registry_vars, device_vars>>

\* handle_command lines 209, 212-217: an item arrived within 10 s
handle_command_get(c) ==
    /\ cpc[c] = "wait"
    /\ response_q[c] # <<>>
    /\ LET got == queue_get(response_q[c])
       IN  /\ response_q' = [response_q EXCEPT ![c] = got.rest]
           /\ result' = [result EXCEPT ![c] = clean_response(AsSequence(got.item))]
           /\ g_got' = [g_got EXCEPT ![c] = got.item]
    /\ cpc' = [cpc EXCEPT ![c] = "idle"]
    /\ UNCHANGED <<c_port, _driver_version, driver_version, c_service, c_local, serial_interface, g_next,
                   g_req, g_enq, g_wr, g_dlv, g_cur, g_inflight, g_puts>>
    /\ UNCHANGED <<registry_vars, worker_vars, device_vars>>

\* Timing, lines 87, 102-109 and 209: a running worker that has this request
\* next in line, or in hand, puts its result within 0.1 s + 2 s + 20 * 0.1 s
\* + 2 s, before the caller's 10 s are over.  A request behind another one,
\* or on a worker whose thread has ended or is about to, can wait longer.
AnsweredInTime(c) ==
    LET w == serial_interface[c]
    IN  \/ (wpc[w] = "poll" /\ g_cur[w] = g_req[c])
        \/ /\ (wpc[w] = "init" \/ (wpc[w] = "loop" /\ alive[w]))
            /\ input_q[w] # <<>>
            /\ Head(input_q[w]).g_id = g_req[c]
            /\ service_qs[w][Head(input_q[w]).service] # None

\* handle_command lines 210-217: queue.Empty after 10 s, raw_response = ""
handle_command_empty(c) ==
    /\ cpc[c] = "wait"
    /\ response_q[c] = <<>>
    /\ ~AnsweredInTime(c)
    /\ result' = [result EXCEPT ![c] = clean_response(AsSequence(StrItem("", -1)))]
    /\ g_got' = [g_got EXCEPT ![c] = StrItem("", -1)]
    /\ cpc' = [cpc EXCEPT ![c] = "idle"]
    /\ UNCHANGED <<c_port, _driver_version, driver_version, c_service, c_local, serial_interface, response_q,
                   g_next, g_req, g_enq, g_wr, g_dlv, g_cur, g_inflight,
                   g_puts>>
    /\ UNCHANGED <<registry_vars, worker_vars, device_vars>>

\* handle_command called on a channel after its close_service: the object
\* keeps no record of the close, lines 202-207 run as for an open channel
closed_handle_command_put(c, invocation) ==
    /\ cpc[c] = "closed"
    /\ g_next <= MaxRequests
    /\ LET w == serial_interface[c]
           message_to_send ==
               [service |-> c_service[c], command |-> invocation.command,
                data |-> invocation.data, g_id |-> g_next]
       IN  /\ input_q' = [input_q EXCEPT ![w] = queue_put(@, message_to_send)]
           /\ g_enq' = [g_enq EXCEPT ![w] = Append(@, g_next)]
    /\ g_req' = [g_req EXCEPT ![c] = g_next]
    /\ g_next' = g_next + 1
    /\ cpc' = [cpc EXCEPT ![c] = "closed_wait"]
    /\ UNCHANGED <<alive, wpc, service_qs, next_response_q, w_cmd, c_port, _driver_version, driver_version,
                   c_service, c_local, serial_interface, response_q, result,
                   g_got, g_wr, g_dlv, g_cur, g_inflight, g_puts>>
    /\ UNCHANGED <<registry_vars, device_vars>>

\* lines 209, 212-217 of that call: an item is on the channel's queue
closed_handle_command_get(c) ==
    /\ cpc[c] = "closed_wait"
    /\ response_q[c] # <<>>
    /\ LET got == queue_get(response_q[c])
       IN  /\ response_q' = [response_q EXCEPT ![c] = got.rest]
           /\ result' = [result EXCEPT ![c] = clean_response(AsSequence(got.item))]
           /\ g_got' = [g_got EXCEPT ![c] = got.item]
    /\ cpc' = [cpc EXCEPT ![c] = "closed"]
    /\ UNCHANGED <<c_port, _driver_version, driver_version, c_service, c_local, serial_interface, g_next,
                   g_req, g_enq, g_wr, g_dlv, g_cur, g_inflight, g_puts>>
    /\ UNCHANGED <<registry_vars, worker_vars, device_vars>>

\* lines 210-217 of that call: queue.Empty after 10 s
closed_handle_command_empty(c) ==
    /\ cpc[c] = "closed_wait"
    /\ response_q[c] = <<>>
    /\ ~AnsweredInTime(c)
    /\ result' = [result EXCEPT ![c] = clean_response(AsSequence(StrItem("", -1)))]
    /\ g_got' = [g_got EXCEPT ![c] = StrItem("", -1)]
    /\ cpc' = [cpc EXCEPT ![c] = "closed"]
    /\ UNCHANGED <<c_port, _driver_version, driver_version, c_service, c_local, serial_interface, response_q,
                   g_next, g_req, g_enq, g_wr, g_dlv, g_cur, g_inflight,
                   g_puts>>
    /\ UNCHANGED <<registry_vars, worker_vars, device_vars>>

\* --------------------------------------------- the driver_version property
\* lines 191-194: the request driver_version submits
VersionInvocation == [command |-> "VERSION", data |-> <<>>]

\* line 190, `not self._driver_version`: None, "" are false; a non-empty str
\* and a (non-empty) dict are true
Truthy(version) ==
    version.set /\ ~(version.key = "str" /\ version.data = <<>>)

\* lines 190-194 and handle_command lines 202-207: no memo yet, submit VERSION
driver_version_miss(c) ==
    /\ cpc[c] = "idle"
    /\ ~Truthy(_driver_version[c])
    /\ g_next <= MaxRequests
    /\ LET w == serial_interface[c]
           message_to_send ==
               [service |-> c_service[c],
                command |-> VersionInvocation.command,
                data |-> VersionInvocation.data, g_id |-> g_next]
       IN  /\ input_q' = [input_q EXCEPT ![w] = queue_put(@, message_to_send)]
           /\ g_enq' = [g_enq EXCEPT ![w] = Append(@, g_next)]
    /\ g_req' = [g_req EXCEPT ![c] = g_next]
    /\ g_next' = g_next + 1
    /\ cpc' = [cpc EXCEPT ![c] = "version_wait"]
    /\ UNCHANGED <<alive, wpc, service_qs, next_response_q, w_cmd, c_port,
                   _driver_version, driver_version, c_service, c_local,
                   serial_interface, response_q, result, g_got, g_wr, g_dlv,
                   g_cur, g_inflight, g_puts>>
    /\ UNCHANGED <<registry_vars, device_vars>>

\* lines 195-196 after handle_command returned `response`; an exception
\* raised by handle_command leaves driver_version before line 195
driver_version_store(c, response) ==
    IF response.exc = "none"
    THEN /\ _driver_version' = [_driver_version EXCEPT ![c] = VersionOf(response)]
         /\ driver_version' = [driver_version EXCEPT ![c] = VersionOf(response)]
    ELSE UNCHANGED <<_driver_version, driver_version>>

\* handle_command lines 209, 212-217, then lines 195-196
driver_version_get(c) ==
    /\ cpc[c] = "version_wait"
    /\ response_q[c] # <<>>
    /\ LET got == queue_get(response_q[c])
           response == clean_response(AsSequence(got.item))
       IN  /\ response_q' = [response_q EXCEPT ![c] = got.rest]
           /\ result' = [result EXCEPT ![c] = response]
           /\ g_got' = [g_got EXCEPT ![c] = got.item]
           /\ driver_version_store(c, response)
    /\ cpc' = [cpc EXCEPT ![c] = "idle"]
    /\ UNCHANGED <<c_port, c_service, c_local, serial_interface, g_next,
                   g_req, g_enq, g_wr, g_dlv, g_cur, g_inflight, g_puts>>
    /\ UNCHANGED <<registry_vars, worker_vars, device_vars>>

\* handle_command lines 210-217 (queue.Empty after 10 s), then lines 195-196
driver_version_empty(c) ==
    /\ cpc[c] = "version_wait"
    /\ response_q[c] = <<>>
    /\ ~AnsweredInTime(c)
    /\ LET response == clean_response(AsSequence(StrItem("", -1)))
       IN  /\ result' = [result EXCEPT ![c] = response]
           /\ driver_version_store(c, response)
    /\ g_got' = [g_got EXCEPT ![c] = StrItem("", -1)]
    /\ cpc' = [cpc EXCEPT ![c] = "idle"]
    /\ UNCHANGED <<c_port, c_service, c_local, serial_interface, response_q,
                   g_next, g_req, g_enq, g_wr, g_dlv, g_cur, g_inflight,
                   g_puts>>
    /\ UNCHANGED <<registry_vars, worker_vars, device_vars>>

\* line 190 with the memo set: nothing is submitted
driver_version_hit(c) ==
    /\ cpc[c] = "idle"
    /\ Truthy(_driver_version[c])
    /\ cpc' = [cpc EXCEPT ![c] = "version_hit"]
    /\ UNCHANGED <<c_port, _driver_version, driver_version, c_service,
                   c_local, serial_interface, response_q, result>>
    /\ UNCHANGED <<registry_vars, worker_vars, device_vars, ghost_vars>>

\* line 196: return the memo
driver_version_return(c) ==
    /\ cpc[c] = "version_hit"
    /\ driver_version' = [driver_version EXCEPT ![c] = _driver_version[c]]
    /\ cpc' = [cpc EXCEPT ![c] = "idle"]
    /\ UNCHANGED <<c_port, _driver_version, c_service, c_local,
                   serial_interface, response_q, result>>
    /\ UNCHANGED <<registry_vars, worker_vars, device_vars, ghost_vars>>

\* SharedSerial.close_service lines 220-222 and SerialInterface.close_service
\* line 115: pop the service from the registry's worker for this port
close_service_pop(c) ==
    /\ cpc[c] = "idle"
    /\ LET w == serial_interfaces[c_port[c]]
       IN  /\ service_qs' = [service_qs EXCEPT ![w][c_service[c]] = None]
           /\ c_local' = [c_local EXCEPT ![c] = w]
    /\ cpc' = [cpc EXCEPT ![c] = "close_test"]
    /\ UNCHANGED <<alive, wpc, input_q, next_response_q, w_cmd, c_port, _driver_version, driver_version,
                   c_service, serial_interface, response_q, result>>
    /\ UNCHANGED <<registry_vars, device_vars, ghost_vars>>

\* SerialInterface.close_service line 116
close_service_test(c) ==
    /\ cpc[c] = "close_test"
    /\ cpc' = [cpc EXCEPT ![c] =
                 IF TableEmpty(c_local[c]) THEN "close_stop" ELSE "closed"]
    /\ UNCHANGED <<c_port, _driver_version, driver_version, c_service, c_local, serial_interface, response_q,
                   result>>
    /\ UNCHANGED <<registry_vars, worker_vars, device_vars, ghost_vars>>

\* SerialInterface.close lines 120-121 (join returns after at most 2 s)
close(c) ==
    /\ cpc[c] = "close_stop"
    /\ alive' = [alive EXCEPT ![c_local[c]] = FALSE]
    /\ cpc' = [cpc EXCEPT ![c] = "closed"]
    /\ UNCHANGED <<wpc, input_q, service_qs, next_response_q, w_cmd, c_port, _driver_version, driver_version,
                   c_service, c_local, serial_interface, response_q, result,
                   g_next, g_req, g_got, g_enq, g_wr, g_dlv, g_cur,
                   g_inflight, g_puts>>
    /\ UNCHANGED <<registry_vars, device_vars>>


\* ------------------------------------------- SerialInterface.run (the worker)
\* the worker takes a request only at the top of its loop (line 85-87)
AtLoopTopOrPolling(w) == wpc[w] \in {"loop", "poll"}

AtLoopTop(w) == wpc[w] = "loop"

\* line 83, first statement of the started thread
run_start(w) ==
    /\ wpc[w] = "init"
    /\ alive' = [alive EXCEPT ![w] = TRUE]
    /\ wpc' = [wpc EXCEPT ![w] = "loop"]
    /\ UNCHANGED <<input_q, service_qs, next_response_q, w_cmd>>
    /\ UNCHANGED <<registry_vars, channel_vars, device_vars, ghost_vars>>

\* line 85: `while self.alive` fails, the thread ends
run_exit(w) ==
    /\ AtLoopTop(w)
    /\ ~alive[w]
    /\ wpc' = [wpc EXCEPT ![w] = "exited"]
    /\ UNCHANGED <<alive, input_q, service_qs, next_response_q, w_cmd>>
    /\ UNCHANGED <<registry_vars, channel_vars, device_vars, ghost_vars>>

\* lines 87, 95: a request whose service has no entry in service_qs raises
\* KeyError out of run(); the thread ends with alive still set
run_get_unregistered(w) ==
    /\ AtLoopTop(w)
    /\ alive[w]
    /\ input_q[w] # <<>>
    /\ LET got == queue_get(input_q[w])
       IN  /\ service_qs[w][got.item.service] = None
           /\ input_q' = [input_q EXCEPT ![w] = got.rest]
           /\ g_cur' = [g_cur EXCEPT ![w] = got.item.g_id]
    /\ wpc' = [wpc EXCEPT ![w] = "crashed"]
    /\ UNCHANGED <<alive, service_qs, next_response_q, w_cmd, g_next, g_req,
                   g_got, g_enq, g_wr, g_dlv, g_inflight, g_puts>>
    /\ UNCHANGED <<registry_vars, channel_vars, device_vars>>

\* lines 87, 95-98: take the request, select its queue, write the line
run_write(w) ==
    /\ AtLoopTop(w)
    /\ alive[w]
    /\ input_q[w] # <<>>
    /\ LET got == queue_get(input_q[w])
           cmd_dict == got.item
       IN  /\ service_qs[w][cmd_dict.service] # None
           /\ ~IsBytes(cmd_dict.data)
           /\ input_q' = [input_q EXCEPT ![w] = got.rest]
           /\ next_response_q' = [next_response_q EXCEPT ![w] =
                                     service_qs[w][cmd_dict.service]]
           /\ w_cmd' = [w_cmd EXCEPT ![w] = serial_command_str(cmd_dict)]
           /\ dev_cmds' = [dev_cmds EXCEPT ![w_port[w]] =
                             Append(@, [line |-> serial_command_str(cmd_dict),
                                        g_id |-> cmd_dict.g_id])]
           /\ g_cur' = [g_cur EXCEPT ![w] = cmd_dict.g_id]
           /\ g_wr' = [g_wr EXCEPT ![w] = Append(@, cmd_dict.g_id)]
           /\ g_inflight' = [g_inflight EXCEPT ![w] = @ \cup {cmd_dict.g_id}]
    /\ wpc' = [wpc EXCEPT ![w] = "poll"]
    /\ UNCHANGED <<alive, service_qs, rx, n_unsolicited, g_next, g_req,
                   g_got, g_enq, g_dlv, g_puts>>
    /\ UNCHANGED <<registry_vars, channel_vars>>

\* lines 87, 95-100, 112: the write raises PortNotOpenError; the str of line
\* 100 is put on the requester's queue
run_write_not_open(w) ==
    /\ AtLoopTop(w)
    /\ alive[w]
    /\ input_q[w] # <<>>
    /\ LET got == queue_get(input_q[w])
           cmd_dict == got.item
           q == service_qs[w][cmd_dict.service]
           response_text == StrItem(PortNotOpenText, cmd_dict.g_id)
       IN  /\ q # None
           /\ ~IsBytes(cmd_dict.data)
           /\ input_q' = [input_q EXCEPT ![w] = got.rest]
           /\ next_response_q' = [next_response_q EXCEPT ![w] = q]
           /\ w_cmd' = [w_cmd EXCEPT ![w] = serial_command_str(cmd_dict)]
           /\ response_q' = [response_q EXCEPT ![q] =
                                queue_put(@, response_text)]
           /\ g_cur' = [g_cur EXCEPT ![w] = cmd_dict.g_id]
           /\ g_wr' = [g_wr EXCEPT ![w] = Append(@, cmd_dict.g_id)]
           /\ g_dlv' = [g_dlv EXCEPT ![w] = Append(@, cmd_dict.g_id)]
           /\ g_puts' = CountPut(response_text)
    /\ UNCHANGED <<alive, wpc, service_qs, cpc, c_port, _driver_version, driver_version, c_service, c_local,
                   serial_interface, result, g_next, g_req, g_got, g_enq,
                   g_inflight>>
    /\ UNCHANGED <<registry_vars, device_vars>>

\* lines 87, 95, 96: the request's data is a bytes object; str + bytes raises
\* TypeError out of run() after line 95 selected the queue; the thread ends
\* with alive still set and nothing written
run_format_type_error(w) ==
    /\ AtLoopTop(w)
    /\ alive[w]
    /\ input_q[w] # <<>>
    /\ LET got == queue_get(input_q[w])
           cmd_dict == got.item
       IN  /\ service_qs[w][cmd_dict.service] # None
           /\ IsBytes(cmd_dict.data)
           /\ input_q' = [input_q EXCEPT ![w] = got.rest]
           /\ next_response_q' = [next_response_q EXCEPT ![w] =
                                     service_qs[w][cmd_dict.service]]
           /\ g_cur' = [g_cur EXCEPT ![w] = cmd_dict.g_id]
    /\ wpc' = [wpc EXCEPT ![w] = "crashed"]
    /\ UNCHANGED <<alive, service_qs, w_cmd, g_next, g_req, g_got, g_enq,
                   g_wr, g_dlv, g_inflight, g_puts>>
    /\ UNCHANGED <<registry_vars, channel_vars, device_vars>>

\* the lines as they were read, nothing dropped
keep_echo(response_text, command_str) == response_text

\* lines 106-107: drop the first line when it is the command just written
strip_echo(response_text, command_str) ==
    IF response_text[1].text = command_str
    THEN Tail(response_text) ELSE response_text

\* lines 102-108, 112: bytes are waiting; read every line, drop the echo,
\* put the rest on the requester's queue
run_read(w) ==
    /\ wpc[w] = "poll"
    /\ rx[w_port[w]] # <<>>
    /\ LET response_text == strip_echo(rx[w_port[w]], w_cmd[w])
           item == ListItem(Texts(response_text), g_cur[w],
                            Gens(response_text))
       IN  /\ response_q' = [response_q EXCEPT ![next_response_q[w]] =
                                queue_put(@, item)]
           /\ g_puts' = CountPut(item)
    /\ rx' = [rx EXCEPT ![w_port[w]] = <<>>]
    /\ g_dlv' = [g_dlv EXCEPT ![w] = Append(@, g_cur[w])]
    /\ g_inflight' = [g_inflight EXCEPT ![w] = @ \ {g_cur[w]}]
    /\ wpc' = [wpc EXCEPT ![w] = "loop"]
    /\ UNCHANGED <<alive, input_q, service_qs, next_response_q, w_cmd, cpc,
                   c_port, _driver_version, driver_version, c_service, c_local, serial_interface, result,
                   dev_cmds, n_unsolicited, g_next, g_req, g_got, g_enq,
                   g_wr, g_cur>>
    /\ UNCHANGED registry_vars

\* lines 102, 109-112: twenty polls of 0.1 s found nothing waiting
run_timeout(w) ==
    /\ wpc[w] = "poll"
    /\ rx[w_port[w]] = <<>>
    /\ LET item == ListItem(TimeoutLines, g_cur[w], {})
       IN  /\ response_q' = [response_q EXCEPT ![next_response_q[w]] =
                                queue_put(@, item)]
           /\ g_puts' = CountPut(item)
    /\ g_dlv' = [g_dlv EXCEPT ![w] = Append(@, g_cur[w])]
    /\ g_inflight' = [g_inflight EXCEPT ![w] = @ \ {g_cur[w]}]
    /\ wpc' = [wpc EXCEPT ![w] = "loop"]
    /\ UNCHANGED <<alive, input_q, service_qs, next_response_q, w_cmd, cpc,
                   c_port, _driver_version, driver_version, c_service, c_local, serial_interface, result,
                   g_next, g_req, g_got, g_enq, g_wr, g_cur>>
    /\ UNCHANGED <<registry_vars, device_vars>>

\* some queue that is not the one used last
other_queue(w) == CHOOSE c \in Channels : c # next_response_q[w]

\* line 93: self.next_response_q, the queue line 95 selected for the request
\* dequeued last
forward_queue(w) == next_response_q[w]

\* lines 87-93: no request within 0.1 s; lines found on the port are put on
\* the queue used last
run_idle_forward(w) ==
    /\ AtLoopTop(w)
    /\ alive[w]
    /\ input_q[w] = <<>>
    /\ rx[w_port[w]] # <<>>
    /\ next_response_q[w] # None
    /\ LET item == ListItem(Texts(rx[w_port[w]]), 0, Gens(rx[w_port[w]]))
       IN  /\ response_q' = [response_q EXCEPT ![forward_queue(w)] =
                                queue_put(@, item)]
           /\ g_puts' = CountPut(item)
    /\ rx' = [rx EXCEPT ![w_port[w]] = <<>>]
    /\ UNCHANGED <<cpc, c_port, _driver_version, driver_version, c_service, c_local, serial_interface, result,
                   dev_cmds, n_unsolicited, g_next, g_req, g_got, g_enq,
                   g_wr, g_dlv, g_cur, g_inflight>>
    /\ UNCHANGED <<registry_vars, worker_vars>>

\* lines 87-93 with next_response_q still None (line 76): None.put raises
\* AttributeError out of run(); the thread ends with alive still set
run_idle_no_queue(w) ==
    /\ AtLoopTop(w)
    /\ alive[w]
    /\ input_q[w] = <<>>
    /\ rx[w_port[w]] # <<>>
    /\ next_response_q[w] = None
    /\ rx' = [rx EXCEPT ![w_port[w]] = <<>>]
    /\ wpc' = [wpc EXCEPT ![w] = "crashed"]
    /\ UNCHANGED <<alive, input_q, service_qs, next_response_q, w_cmd,
                   dev_cmds, n_unsolicited>>
    /\ UNCHANGED <<registry_vars, channel_vars, ghost_vars>>

\* ---------------------------------------------------------------- the device
\* code.py lines 253-256 and handle_cmd: the console echoes the line (or not)
\* and the reply is printed
device_reply(p, echo, pin_is_output) ==
    /\ dev_cmds[p] # <<>>
    /\ LET cmd == Head(dev_cmds[p])
           reply == IF cmd.line[1] = "VERSION" THEN ReplyVersion
                    ELSE IF pin_is_output THEN ReplyDone(cmd.line)
                    ELSE ReplyError(cmd.line)
       IN  rx' = [rx EXCEPT ![p] =
                    @ \o Tag(IF echo THEN <<cmd.line>> ELSE <<>>, cmd.g_id)
                      \o Tag(reply, cmd.g_id)]
    /\ dev_cmds' = [dev_cmds EXCEPT ![p] = Tail(@)]
    /\ UNCHANGED n_unsolicited
    /\ UNCHANGED <<registry_vars, worker_vars, channel_vars, ghost_vars>>

\* output that answers no command, printed while a worker has the port open
\* (serial_host.py line 84)
device_unsolicited(p) ==
    /\ \E w \in Workers : w_port[w] = p /\ wpc[w] \in {"loop", "poll"}
    /\ n_unsolicited < MaxUnsolicited
    /\ n_unsolicited' = n_unsolicited + 1
    /\ rx' = [rx EXCEPT ![p] = @ \o Tag(UnsolicitedLines, 0)]
    /\ UNCHANGED dev_cmds
    /\ UNCHANGED <<registry_vars, worker_vars, channel_vars, ghost_vars>>

\* --------------------------------------------------------- specifications
LifecycleStep(c) ==
    \/ \E p \in Ports, s \in ConnectionType : SharedSerial_init(c, p, s)
    \/ obtain_create(c)
    \/ obtain_store(c)
    \/ obtain_register(c)
    \/ obtain_return(c)
    \/ close_service_pop(c)
    \/ close_service_test(c)
    \/ close(c)

InvokeStep(c) ==
    \/ \E i \in Invocations : handle_command_put(c, i)
    \/ handle_command_get(c)
    \/ handle_command_empty(c)

WorkerStep(w) ==
    \/ run_start(w)
    \/ run_exit(w)
    \/ run_get_unregistered(w)
    \/ run_write(w)
    \/ run_write_not_open(w)
    \/ run_read(w)
    \/ run_timeout(w)
    \/ run_idle_forward(w)

\* the device answers the oldest command, with or without echoing it first;
\* the pin addressed is configured as an output
DeviceStep == \E p \in Ports, echo \in BOOLEAN : device_reply(p, echo, TRUE)

\* no other caller is inside a constructor or close_service
InLifecycleCall(c) ==
    cpc[c] \notin {"new", "idle", "wait", "closed", "closed_wait",
                   "version_wait", "version_hit"}

OneAtATime(c) == \A d \in Channels \ {c} : ~InLifecycleCall(d)

\* Channels are constructed and closed by one thread (set_configuration and
\* close of the BaseIo objects, as the fixtures of src/test do); handle_command
\* is called from any thread; the worker threads and the device run freely.
Next ==
    \/ \E c \in Channels : OneAtATime(c) /\ LifecycleStep(c)
    \/ \E c \in Channels : InvokeStep(c)
    \/ \E w \in Workers : WorkerStep(w)
    \/ DeviceStep

Spec == Init /\ [][Next]_vars

\* Constructors and close_service are called from concurrently running
\* threads; no request is in progress.
RaceNext ==
    \/ \E c \in Channels : LifecycleStep(c)
    \/ \E w \in Workers : run_start(w) \/ run_exit(w)

RaceSpec == Init /\ [][RaceNext]_vars


\* the worker threads get processor time
FairSpec == Spec /\ \A w \in Workers : WF_vars(WorkerStep(w))

\* The device's console echoes every line it receives before the reply is
\* printed (code.py line 255, input()).
DeviceEchoStep == \E p \in Ports : device_reply(p, TRUE, TRUE)

EchoNext ==
    \/ \E c \in Channels : OneAtATime(c) /\ LifecycleStep(c)
    \/ \E c \in Channels : InvokeStep(c)
    \/ \E w \in Workers : WorkerStep(w)
    \/ DeviceEchoStep

EchoSpec == Init /\ [][EchoNext]_vars

\* SpiIo.send_message next to the DIO calls: a channel of service SPI also
\* submits SPI_SEND with a bytes payload.
SpiSendStep(c) ==
    /\ c_service[c] = "SPI"
    /\ \E i \in SpiInvocations : handle_command_put(c, i)

SpiNext ==
    \/ \E c \in Channels : OneAtATime(c) /\ LifecycleStep(c)
    \/ \E c \in Channels : InvokeStep(c)
    \/ \E c \in Channels : SpiSendStep(c)
    \/ \E w \in Workers : WorkerStep(w)
    \/ \E w \in Workers : run_format_type_error(w)
    \/ DeviceStep

SpiSpec == Init /\ [][SpiNext]_vars

\* Callers that go on using a channel after closing it.
ClosedInvokeStep(c) ==
    \/ \E i \in Invocations : closed_handle_command_put(c, i)
    \/ closed_handle_command_get(c)
    \/ closed_handle_command_empty(c)

MisuseNext ==
    \/ \E c \in Channels : OneAtATime(c) /\ LifecycleStep(c)
    \/ \E c \in Channels : InvokeStep(c)
    \/ \E c \in Channels : ClosedInvokeStep(c)
    \/ \E w \in Workers : WorkerStep(w)
    \/ DeviceStep

MisuseSpec == Init /\ [][MisuseNext]_vars

\* A device whose console does not echo, and callers that also send
\* DIO_SET with data "3 True".
SameTextStep(c) == \E i \in SameTextInvocations : handle_command_put(c, i)

DeviceNoEchoStep == \E p \in Ports : device_reply(p, FALSE, TRUE)

NoEchoNext ==
    \/ \E c \in Channels : OneAtATime(c) /\ LifecycleStep(c)
    \/ \E c \in Channels : InvokeStep(c)
    \/ \E c \in Channels : SameTextStep(c)
    \/ \E w \in Workers : WorkerStep(w)
    \/ DeviceNoEchoStep

NoEchoSpec == Init /\ [][NoEchoNext]_vars

\* The device also prints lines that answer no command, at any time after
\* the port exists; its console does not echo.
UnsolicitedNext ==
    \/ \E c \in Channels : OneAtATime(c) /\ LifecycleStep(c)
    \/ \E c \in Channels : InvokeStep(c)
    \/ \E w \in Workers : WorkerStep(w)
    \/ \E w \in Workers : run_idle_no_queue(w)
    \/ DeviceNoEchoStep
    \/ \E p \in Ports : device_unsolicited(p)

UnsolicitedSpec == Init /\ [][UnsolicitedNext]_vars

\* Callers that read the driver_version property (get_driver_version of the
\* BaseIo objects, as test_version does for two interfaces).
VersionStep(c) ==
    \/ driver_version_miss(c)
    \/ driver_version_get(c)
    \/ driver_version_empty(c)
    \/ driver_version_hit(c)
    \/ driver_version_return(c)

VersionNext ==
    \/ \E c \in Channels : OneAtATime(c) /\ LifecycleStep(c)
    \/ \E c \in Channels : VersionStep(c)
    \/ \E w \in Workers : WorkerStep(w)
    \/ DeviceStep

VersionSpec == Init /\ [][VersionNext]_vars

\* The classifier on every reply of Replies: channel 1 (DIO) has submitted
\* request 1, worker 1 has written it, read the reply and put it on the
\* channel's queue (line 112); handle_command is about to take it (line 209).
ClassifyInit ==
    /\ serial_interfaces = [p \in Ports |-> 1]
    /\ n_workers = 1
    /\ w_port = [w \in Workers |-> "ttyACM0"]
    /\ alive = [w \in Workers |-> w = 1]
    /\ wpc = [w \in Workers |-> IF w = 1 THEN "loop" ELSE "none"]
    /\ input_q = [w \in Workers |-> <<>>]
    /\ service_qs = [w \in Workers |->
                       [s \in ConnectionType |->
                           IF w = 1 /\ s = "DIO" THEN 1 ELSE None]]
    /\ next_response_q = [w \in Workers |-> IF w = 1 THEN 1 ELSE None]
    /\ \E i \in Invocations :
          w_cmd = [w \in Workers |->
                      IF w = 1
                      THEN serial_command_str([command |-> i.command,
                                               data |-> i.data])
                      ELSE <<>>]
    /\ cpc = [c \in Channels |-> IF c = 1 THEN "wait" ELSE "new"]
    /\ c_port = [c \in Channels |-> "ttyACM0"]
    /\ _driver_version = [c \in Channels |-> NoVersion]
    /\ driver_version = [c \in Channels |-> NoVersion]
    /\ c_service = [c \in Channels |-> "DIO"]
    /\ c_local = [c \in Channels |-> None]
    /\ serial_interface = [c \in Channels |-> IF c = 1 THEN 1 ELSE None]
    /\ \E text_response \in Replies :
          response_q = [c \in Channels |->
                           IF c = 1 THEN <<ListItem(text_response, 1, {1})>>
                           ELSE <<>>]
    /\ result = [c \in Channels |-> NoResult]
    /\ rx = [p \in Ports |-> <<>>]
    /\ dev_cmds = [p \in Ports |-> <<>>]
    /\ n_unsolicited = 0
    /\ g_next = 2
    /\ g_req = [c \in Channels |-> IF c = 1 THEN 1 ELSE 0]
    /\ g_got = [c \in Channels |-> NoItem]
    /\ g_enq = [w \in Workers |-> IF w = 1 THEN <<1>> ELSE <<>>]
    /\ g_wr = [w \in Workers |-> IF w = 1 THEN <<1>> ELSE <<>>]
    /\ g_dlv = [w \in Workers |-> IF w = 1 THEN <<1>> ELSE <<>>]
    /\ g_cur = [w \in Workers |-> IF w = 1 THEN 1 ELSE 0]
    /\ g_inflight = [w \in Workers |-> {}]
    /\ g_puts = [r \in 1..MaxRequests |-> IF r = 1 THEN 1 ELSE 0]

ClassifyNext == \E c \in Channels : handle_command_get(c)

ClassifySpec == ClassifyInit /\ [][ClassifyNext]_vars

\* ------------------------------------------------------------------ claims
Range(seq) == {seq[i] : i \in 1..Len(seq)}

IsPrefix(a, b) == Len(a) <= Len(b) /\ SubSeq(b, 1, Len(a)) = a

\* the thread of w is running its loop and will go on doing so
WorkerLive(w) ==
    \/ wpc[w] = "init"
    \/ (wpc[w] \in {"loop", "poll"} /\ alive[w])

\* handle_command has returned (or raised) for the request g_req[c]
Returned(c) ==
    g_req[c] # 0 /\ cpc[c] \notin {"wait", "closed_wait", "version_wait"}

\* c is the only channel constructed with its service id on its port
SoleOfService(c) ==
    \A d \in Channels \ {c} :
        cpc[d] = "new" \/ c_service[d] # c_service[c] \/ c_port[d] # c_port[c]

\* C1: the envelope handle_command returns is built from the item the worker
\* put for that same request, and from lines the device sent for it: never
\* from the reply to an earlier request or from lines forwarded while idle.
\* (Stated for a channel that shares its service id with no other channel.)
C1_Correlation ==
    \A c \in Channels :
        (SoleOfService(c) /\ Returned(c) /\ g_got[c].g_for # -1) =>
            /\ g_got[c].g_for = g_req[c]
            /\ g_got[c].g_gen \subseteq {g_req[c]}

\* C2: every request put on a worker's input queue is eventually answered by
\* an item put on the queue of its service, and no second item stems from it.
C2_EveryRequestAnsweredOnce ==
    /\ \A r \in 1..MaxRequests :
          (\E w \in Workers : r \in Range(g_enq[w]))
              ~> (\E w \in Workers : r \in Range(g_dlv[w]))
    /\ [](\A r \in 1..MaxRequests : g_puts[r] <= 1)

\* C3: a worker writes a request only when every request it wrote before has
\* had its result put on a queue, so at most one request is in flight; and no
\* step of a caller writes to or reads from the connection.
C3_OneInFlight ==
    [][/\ \A w \in Workers :
            g_wr'[w] # g_wr[w] =>
                /\ g_inflight[w] = {}
                /\ g_dlv[w] = g_wr[w]
                /\ Cardinality(g_inflight'[w]) <= 1
       /\ (dev_cmds' # dev_cmds \/ rx' # rx) => cpc' = cpc]_vars

C3_Witness ==
    \E w \in Workers :
        /\ Len(g_wr[w]) = 2
        /\ Len(g_dlv[w]) = 1
        /\ g_inflight[w] = {g_wr[w][2]}

\* C4: on each worker the writes happen in the order the requests were put on
\* input_q, and the results are delivered in the order of the writes.
C4_SubmissionOrder ==
    \A w \in Workers :
        /\ IsPrefix(g_wr[w], g_enq[w])
        /\ IsPrefix(g_dlv[w], g_wr[w])

C4_Witness ==
    \E w \in Workers :
        /\ Len(g_dlv[w]) = 1
        /\ Len(input_q[w]) = 1
        /\ g_dlv[w][1] < Head(input_q[w]).g_id
        /\ \E c, d \in Channels :
              /\ c # d
              /\ cpc[c] = "wait" /\ g_req[c] = g_dlv[w][1]
              /\ cpc[d] = "wait" /\ g_req[d] = Head(input_q[w]).g_id

\* C5: at most one live worker per port, and every channel constructed for
\* the port holds that worker.
C5_OneWorkerPerPort ==
    \A p \in Ports :
        /\ Cardinality({w \in Workers : w_port[w] = p /\ WorkerLive(w)}) <= 1
        /\ \A c, d \in Channels :
              (cpc[c] = "idle" /\ cpc[d] = "idle" /\ c_port[c] = p
                 /\ c_port[d] = p)
                  => serial_interface[c] = serial_interface[d]

\* C6: two channels constructed one after the other on the same port hold the
\* same worker; once one of them is closed the worker is still live while the
\* other is open; once both are closed the worker is stopped.
C6_SharedWorkerLifecycle ==
    \A c, d \in Channels :
        (c # d /\ c_port[c] = c_port[d]
           /\ cpc[c] \in {"idle", "wait", "closed"}
           /\ cpc[d] \in {"idle", "wait", "closed"}) =>
            /\ serial_interface[c] = serial_interface[d]
            /\ (cpc[c] = "closed" /\ cpc[d] # "closed")
                  => WorkerLive(serial_interface[d])
            /\ (cpc[c] = "closed" /\ cpc[d] = "closed")
                  => ~WorkerLive(serial_interface[d])

\* C7: the step that stops a worker (alive set to False) is taken only in a
\* state where the worker's service table is empty.
C7_StopOnlyWhenEmpty ==
    [][\A w \in Workers : (alive[w] /\ ~alive'[w]) => TableEmpty(w)]_vars

\* C8: when every channel of a port has been closed, the constructor of a new
\* channel for that port returns a live, running worker.
C8_ReacquireYieldsLiveWorker ==
    [][\A c \in Channels :
          (/\ cpc[c] = "return" /\ cpc'[c] = "idle"
           /\ \A d \in Channels \ {c} : cpc[d] \in {"new", "closed"}
           /\ \E d \in Channels \ {c} : cpc[d] = "closed")
              => WorkerLive(serial_interface[c])']_vars

\* C9: when the worker's twenty polls found nothing and it delivered its
\* TIMEOUT result, handle_command returns an envelope of kind ERROR and does
\* not raise.
C9_TimeoutEnvelope ==
    \A c \in Channels :
        (Returned(c) /\ g_got[c].type = "list"
           /\ g_got[c].lines = TimeoutLines) =>
            /\ result[c].exc = "none"
            /\ result[c].command = "ERROR"

\* C10: when the write fails because the port is not open, handle_command
\* returns an envelope of kind ERROR and does not raise, and the worker goes
\* on running.
C10_PortNotOpenEnvelope ==
    \A c \in Channels :
        (Returned(c) /\ g_got[c].type = "str"
           /\ g_got[c].text = PortNotOpenText) =>
            /\ result[c].exc = "none"
            /\ result[c].command = "ERROR"

\* the whitespace-separated tokens of a line, for stating the claims
TokensOf(line) == SelectSeq(line, IsToken)

HasMarker(line) ==
    \E i \in 1..Len(TokensOf(line)) :
        i <= 2 /\ TokensOf(line)[i] \in {"ERROR:", "EXCEPTION:"}

\* handle_command has classified a list of lines and returned or raised
Classified(c) == Returned(c) /\ g_got[c].type = "list"

\* C11: a reply whose first line has the token "ERROR:" as its first or
\* second token is classified as kind ERROR with that line, verbatim, as data.
C11_ErrorMarker ==
    \A c \in Channels :
        (/\ Classified(c)
         /\ g_got[c].lines # <<>>
         /\ \E i \in 1..Len(TokensOf(g_got[c].lines[1])) :
               i <= 2 /\ TokensOf(g_got[c].lines[1])[i] = "ERROR:") =>
            /\ result[c].exc = "none"
            /\ result[c].command = "ERROR"
            /\ result[c].data = g_got[c].lines[1]

\* C12: a non-empty reply whose first line starts with no verb name and has
\* no ERROR:/EXCEPTION: marker (including a first line without any token) is
\* classified as kind ERROR; nothing is raised.
C12_TotalOnMalformed ==
    \A c \in Channels :
        (/\ Classified(c)
         /\ g_got[c].lines # <<>>
         /\ ~HasMarker(g_got[c].lines[1])
         /\ \/ TokensOf(g_got[c].lines[1]) = <<>>
            \/ TokensOf(g_got[c].lines[1])[1] \notin SerialCommand) =>
            /\ result[c].exc = "none"
            /\ result[c].command = "ERROR"

C15_NoResponse ==
    \A c \in Channels :
        (Returned(c) /\ g_got[c].type # "none"
           /\ AsSequence(g_got[c]) = <<>>) =>
            /\ result[c].exc = "none"
            /\ result[c].command = "ERROR"
            /\ result[c].key = "error"
            /\ result[c].data = <<"No response from MCU">>
            /\ ~result[c].ext

C15_Witness ==
    \E c \in Channels :
        /\ Returned(c)
        /\ g_got[c].type = "str" /\ g_got[c].text = ""
        /\ response_q[c] = <<>>
        /\ result[c].command = "ERROR"

C17_BytesPayloadServed ==
    [][\A w \in Workers :
          (/\ AtLoopTop(w) /\ alive[w]
           /\ input_q[w] # <<>>
           /\ IsBytes(Head(input_q[w]).data)
           /\ service_qs[w][Head(input_q[w]).service] # None
           /\ g_cur'[w] = Head(input_q[w]).g_id
           /\ g_cur'[w] # g_cur[w]) =>
              /\ wpc'[w] = "poll"
              /\ dev_cmds'[w_port[w]] =
                     Append(dev_cmds[w_port[w]],
                            [line |-> <<"SPI_SEND", SP, "de:ad", CRLF>>,
                             g_id |-> g_cur'[w]])]_vars

\* C18: a handle_command on a channel that has been closed fails at once at
\* the caller: the step in which the closed channel submits raises an error,
\* leaves the caller where it was and puts nothing on any worker's input
\* queue (so neither the worker nor another service is affected).
C18_ClosedInvokeFailsFast ==
    [][\A c \in Channels :
          (cpc[c] = "closed" /\ g_req'[c] # g_req[c]) =>
              /\ result'[c].exc \notin {"none", "unset"}
              /\ cpc'[c] = "closed"
              /\ input_q' = input_q]_vars

\* C19: when the previous handle_command of a channel ended with the worker's
\* TIMEOUT result, the next handle_command of that channel that is answered
\* from its queue is answered with the item put for the new request, and the
\* channel's worker is still running.  (Stated for a channel that shares its
\* service id with no other channel.)
C19_UsableAfterFailure ==
    [][\A c \in Channels :
          (/\ SoleOfService(c)
           /\ g_got[c].type = "list" /\ g_got[c].lines = TimeoutLines
           /\ cpc[c] = "wait" /\ cpc'[c] = "idle"
           /\ g_got'[c].type = "list") =>
              /\ g_got'[c].g_for = g_req[c]
              /\ g_got'[c].g_gen \subseteq {g_req[c]}
              /\ WorkerLive(serial_interface[c])]_vars

\* C20: a worker whose loop was ended by an exception raised inside run()
\* (other than the caught PortNotOpenError) has its alive flag cleared.
C20_DeadWorkerMarked ==
    \A w \in Workers : wpc[w] = "crashed" => ~alive[w]

\* C21: once the driver_version property of a channel has returned a value,
\* that value is the channel's memo and the memo counts as set for the test
\* that decides whether a call submits a request: every later call submits
\* nothing and returns the same value.
C21_VersionMemoized ==
    \A c \in Channels :
        driver_version[c].set =>
            /\ _driver_version[c] = driver_version[c]
            /\ Truthy(_driver_version[c])

\* C22: with a device that does not echo, the step in which the worker reads
\* the waiting lines for the request it is serving puts every one of those
\* lines, as one item, on the queue of the requesting service: no line is
\* removed, also when the first line reads exactly like the command line.
C22_ReplyLinesKept ==
    [][\A w \in Workers :
          (/\ wpc[w] = "poll"
           /\ rx[w_port[w]] # <<>>
           /\ wpc'[w] = "loop") =>
              response_q'[next_response_q[w]] =
                  Append(response_q[next_response_q[w]],
                         ListItem(Texts(rx[w_port[w]]), g_cur[w],
                                  Gens(rx[w_port[w]])))]_vars

\* C23: when a live worker that has dequeued a request before finds no
\* request waiting and lines on the port, it puts all of them as one item on
\* the queue selected for the request dequeued last and changes no other
\* queue; that selection is made only when a request is dequeued, and is then
\* a queue of the service named in that request.
C23_ForwardToLastUsed ==
    [][\A w \in Workers :
          /\ (/\ AtLoopTop(w) /\ alive[w]
              /\ input_q[w] = <<>>
              /\ rx[w_port[w]] # <<>>
              /\ next_response_q[w] # None
              /\ rx'[w_port[w]] = <<>>) =>
                 response_q' =
                     [response_q EXCEPT ![next_response_q[w]] =
                         Append(@, ListItem(Texts(rx[w_port[w]]), 0,
                                            Gens(rx[w_port[w]])))]
          /\ (g_cur'[w] # g_cur[w] /\ wpc'[w] # "crashed") =>
                 /\ next_response_q'[w] # None
                 /\ c_service[next_response_q'[w]] =
                        Head(input_q[w]).service
          /\ (next_response_q'[w] # next_response_q[w]) =>
                 g_cur'[w] # g_cur[w]]_vars

C23_Witness ==
    \E c \in Channels : \E i \in 1..Len(response_q[c]) :
        /\ response_q[c][i].type = "list"
        /\ response_q[c][i].lines = UnsolicitedLines
        /\ response_q[c][i].g_for = 0
        /\ \E w \in Workers : next_response_q[w] = c /\ g_cur[w] # 0

\* C24: a live worker at the top of its loop that has not dequeued any
\* request yet (next_response_q unset), finds no request waiting and finds
\* unsolicited lines on the port, does not end its loop in that step.
C24_SurvivesEarlyOutput ==
    [][\A w \in Workers :
          (/\ AtLoopTop(w) /\ alive[w]
           /\ next_response_q[w] = None
           /\ input_q[w] = <<>>
           /\ rx[w_port[w]] # <<>>) =>
              wpc'[w] # "crashed"]_vars

\* C25: while a channel stays open, a step of another channel (a
\* registration or a close) leaves the entry of the worker's table that
\* routes to this channel's queue in place and does not stop its worker.
C25_OthersEntryKept ==
    [][\A c \in Channels :
          (/\ cpc[c] \in {"idle", "wait"}
           /\ cpc'[c] \in {"idle", "wait"}
           /\ service_qs[serial_interface[c]][c_service[c]] = c) =>
              /\ service_qs'[serial_interface[c]][c_service[c]] = c
              /\ alive[serial_interface[c]] =>
                     alive'[serial_interface[c]]]_vars

====
